---- MODULE Spec2Model ----
(***************************************************************************)
(* Kapit: the request templating and execution engine (lib/exec.js) driven *)
(* by the terminal front end (the 'x', Ctrl-n, Ctrl-p keys).               *)
(*                                                                         *)
(* JavaScript strings are sequences of atoms.  An atom is a TLA+ string    *)
(* standing for one character of literal text, or for one handlebars       *)
(* expression ("{{a}}", "{{b}}") or for an unclosed expression ("{{").     *)
(* Nested JavaScript values are records of one shape, tagged by t.         *)
(***************************************************************************)
EXTENDS Integers, Sequences, FiniteSets, TLC

(* ------------------------------------------------------------------ *)
(* Bounds of the model                                                *)
(* ------------------------------------------------------------------ *)

\* Number of 'x' key presses (executions) in one run of the program.
MaxExec == 2

\* Longest sequence among the request values handed to compile.
MaxLen == 2

(* ------------------------------------------------------------------ *)
(* JavaScript values                                                  *)
(* ------------------------------------------------------------------ *)

Str(s) == [t |-> "str", s |-> s, n |-> 0, keys |-> <<>>, items |-> <<>>]
Num(n) == [t |-> "num", s |-> <<>>, n |-> n, keys |-> <<>>, items |-> <<>>]
Bool(b) == [t |-> "bool", s |-> <<>>, n |-> IF b THEN 1 ELSE 0, keys |-> <<>>, items |-> <<>>]
Null == [t |-> "null", s |-> <<>>, n |-> 0, keys |-> <<>>, items |-> <<>>]
Undefined == [t |-> "undefined", s |-> <<>>, n |-> 0, keys |-> <<>>, items |-> <<>>]
Arr(items) == [t |-> "arr", s |-> <<>>, n |-> 0, keys |-> <<>>, items |-> items]
Obj(keys, items) == [t |-> "obj", s |-> <<>>, n |-> 0, keys |-> keys, items |-> items]

\* obj[key] of a plain object; undefined when the key is absent.
Get(obj, key) ==
    IF obj.t = "obj" /\ \E i \in 1..Len(obj.keys) : obj.keys[i] = key
    THEN obj.items[CHOOSE i \in 1..Len(obj.keys) : obj.keys[i] = key]
    ELSE Undefined

(* ------------------------------------------------------------------ *)
(* The context and handlebars                                         *)
(* ------------------------------------------------------------------ *)

VarNames == {"a", "b"}

\* The handlebars expressions that occur in requests and the variable each names.
Markers == {"{{a}}", "{{b}}"}
VarOf(m) == IF m = "{{a}}" THEN "a" ELSE "b"

\* An expression that is opened and never closed: handlebars cannot parse it.
Unclosed == "{{"

\* The contexts the data store supplies: variable name -> string, or no entry.
CtxA == [v \in VarNames |-> IF v = "a" THEN [def |-> TRUE, s |-> <<"c", "b">>]
                                         ELSE [def |-> FALSE, s |-> <<>>]]
CtxB == [v \in VarNames |-> IF v = "a" THEN [def |-> TRUE, s |-> <<"z">>]
                                         ELSE [def |-> TRUE, s |-> <<"k">>]]
Contexts == {CtxA, CtxB}

\* handlebars.compile(str, {noEscape: true})(context) raises a parse error.
RenderThrows(str) == \E i \in 1..Len(str) : str[i] = Unclosed

\* handlebars.compile(str, {noEscape: true})(context): each expression is
\* replaced by the variable's value, verbatim, or by nothing when undefined.
RECURSIVE Render(_, _)
Render(str, context) ==
    IF str = <<>> THEN <<>>
    ELSE LET h == Head(str)
             out == IF h \in Markers
                    THEN (IF context[VarOf(h)].def THEN context[VarOf(h)].s ELSE <<>>)
                    ELSE <<h>>
         IN out \o Render(Tail(str), context)

(* ------------------------------------------------------------------ *)
(* compile                                                            *)
(* ------------------------------------------------------------------ *)

\* Some string leaf of the value makes handlebars throw.
RECURSIVE LoopThrows(_)
LoopThrows(obj) ==
    IF obj.t \in {"arr", "obj"}
    THEN \E i \in 1..Len(obj.items) : LoopThrows(obj.items[i])
    ELSE obj.t = "str" /\ RenderThrows(obj.s)

\* loop with the falsy results removed from every sequence (_.compact).
RECURSIVE loopCompact(_, _)
loopCompact(obj, context) ==
    IF obj.t = "arr"
    THEN LET Truthy(x) == x \notin {Null, Str(<<>>), Bool(FALSE), Num(0)}
         IN Arr(SelectSeq([i \in 1..Len(obj.items) |-> loopCompact(obj.items[i], context)],
                          Truthy))
    ELSE IF obj.t = "obj"
    THEN Obj(obj.keys, [i \in 1..Len(obj.items) |-> loopCompact(obj.items[i], context)])
    ELSE IF obj.t = "str"
    THEN Str(Render(obj.s, context))
    ELSE obj

\* loop with _.map applied to mappings as well: a mapping becomes the
\* sequence of its values.
RECURSIVE loopMapsObjects(_, _)
loopMapsObjects(obj, context) ==
    IF obj.t \in {"arr", "obj"}
    THEN Arr([i \in 1..Len(obj.items) |-> loopMapsObjects(obj.items[i], context)])
    ELSE IF obj.t = "str"
    THEN Str(Render(obj.s, context))
    ELSE obj

RECURSIVE loop(_, _)
loop(obj, context) ==
    IF obj.t = "arr"
    THEN Arr([i \in 1..Len(obj.items) |-> loop(obj.items[i], context)])
    ELSE IF obj.t = "obj"
    THEN Obj(obj.keys, [i \in 1..Len(obj.items) |-> loop(obj.items[i], context)])
    ELSE IF obj.t = "str"
    THEN Str(Render(obj.s, context))
    ELSE obj

compile(request, context) == loop(request, context)

(* ------------------------------------------------------------------ *)
(* The response record                                                *)
(* ------------------------------------------------------------------ *)

Fields == {"status", "completed", "error", "headers", "body", "code"}

\* {}: no field present.  A field not in has carries its default value.
EmptyResponse ==
    [has |-> {}, status |-> 0, completed |-> FALSE, error |-> <<>>,
     headers |-> "", body |-> "", code |-> <<>>]

\* response[f] = v
Put(r, f, v) == [r EXCEPT !.has = @ \cup {f}, ![f] = v]

\* response[f] = undefined
PutUndefined(r, f) == [r EXCEPT !.has = @ \ {f}, ![f] = EmptyResponse[f]]

\* response.error holds a sequence of strings: <<"true">> is the boolean true,
\* any other sequence is the text of an error message.
JsTrue == <<"true">>

\* JavaScript truthiness of response.error
ErrorTruthy(r) == "error" \in r.has /\ r.error # <<>>

(* ------------------------------------------------------------------ *)
(* exports.http: the request callback                                 *)
(* ------------------------------------------------------------------ *)

\* What the transport hands to the callback: (error, response, body).
\* The request library passes a response object exactly when no error occurred.
Replies ==
    { [error |-> FALSE, hasResponse |-> TRUE, statusCode |-> 200, headers |-> "h1", body |-> "b1"],
      [error |-> FALSE, hasResponse |-> TRUE, statusCode |-> 201, headers |-> "h2", body |-> "b2"],
      [error |-> FALSE, hasResponse |-> TRUE, statusCode |-> 404, headers |-> "h2", body |-> "b1"],
      [error |-> TRUE, hasResponse |-> FALSE, statusCode |-> 0, headers |-> "", body |-> ""] }

\* response.statusCode on an undefined response: TypeError on the first line.
HttpCallbackThrows(reply) == ~reply.hasResponse

\* A variant that takes every status below 400 for a success.
HttpIsErrorFrom400(reply) == reply.error \/ reply.statusCode >= 400

\* error || response.statusCode !== 200
HttpIsError(reply) == reply.error \/ reply.statusCode # 200

\* The callback's writes to step.response, in order.
HttpCallback(r, reply) ==
    LET r1 == Put(r, "status", reply.statusCode)
        r2 == Put(r1, "completed", TRUE)
        r3 == IF HttpIsError(reply) THEN Put(r2, "error", JsTrue) ELSE r2
        r4 == Put(r3, "headers", reply.headers)
    IN Put(r4, "body", reply.body)

\* The fields the callback assigns.
HttpWrites(reply) ==
    {"status", "completed", "headers", "body"}
        \cup (IF HttpIsError(reply) THEN {"error"} ELSE {})

(* ------------------------------------------------------------------ *)
(* exports.oauthAuthorize: the page title                             *)
(* ------------------------------------------------------------------ *)

\* Page titles the browser can show.
TitleLogin == <<"l", "o", "g">>
TitleCode == <<"c", "b", "?", "code", "=", "x", "1", " ", "T">>
TitleNoCode == <<"c", "b", "?", "state", "=", "s", " ", "T">>
TitleOther == <<"e", "?", "code", "=", "y", " ", "T">>
Titles == {TitleLogin, TitleCode, TitleNoCode, TitleOther}

\* First position of atom a in s, 0 when it does not occur.
IndexOf(s, a) ==
    IF \E i \in 1..Len(s) : s[i] = a
    THEN CHOOSE i \in 1..Len(s) : s[i] = a /\ \A j \in 1..(i - 1) : s[j] # a
    ELSE 0

\* title.indexOf(redirect_uri) === 0
StartsWith(title, redirect_uri) ==
    /\ Len(redirect_uri) <= Len(title)
    /\ SubSeq(title, 1, Len(redirect_uri)) = redirect_uri

\* title.split(' ')[0]
FirstToken(title) ==
    IF IndexOf(title, " ") = 0 THEN title
    ELSE SubSeq(title, 1, IndexOf(title, " ") - 1)

\* The query string of a URL: what follows the first '?'.
QueryOf(u) ==
    IF IndexOf(u, "?") = 0 THEN <<>>
    ELSE SubSeq(u, IndexOf(u, "?") + 1, Len(u))

\* The value of the first `code` parameter of a query string ('&'-separated
\* name=value pairs); present is FALSE when there is none.
RECURSIVE QueryCode(_)
QueryCode(q) ==
    IF q = <<>> THEN [present |-> FALSE, v |-> <<>>]
    ELSE LET amp == IndexOf(q, "&")
             pair == IF amp = 0 THEN q ELSE SubSeq(q, 1, amp - 1)
             rest == IF amp = 0 THEN <<>> ELSE SubSeq(q, amp + 1, Len(q))
         IN IF pair # <<>> /\ pair[1] = "code" /\ (Len(pair) = 1 \/ pair[2] = "=")
            THEN [present |-> TRUE, v |-> SubSeq(pair, 3, Len(pair))]
            ELSE QueryCode(rest)

\* url.parse(title.split(' ')[0], true).query.code
CodeOf(title) == QueryCode(QueryOf(FirstToken(title)))

\* The getTitle callback's writes to step.response.
ExtractCode(r, title) ==
    LET r1 == Put(r, "completed", TRUE)
    IN IF CodeOf(title).present
       THEN Put(r1, "code", CodeOf(title).v)
       ELSE PutUndefined(r1, "code")

(* ------------------------------------------------------------------ *)
(* The data file: one chain of steps                                  *)
(* ------------------------------------------------------------------ *)

ReqHttp ==
    Obj(<<"url", "method", "retries", "tags">>,
        <<Str(<<"u", "{{a}}">>), Str(<<"G">>), Num(3),
          Arr(<<Str(<<"{{b}}">>), Null, Bool(TRUE)>>)>>)

ReqAuthorize ==
    Obj(<<"action", "url", "data">>,
        <<Str(<<"authorize">>), Str(<<"w">>),
          Obj(<<"redirect_uri">>, <<Str(<<"{{a}}">>)>>)>>)

\* render.response(step): the text shown for a response record.
renderResponse(st) == [has |-> TRUE, of |-> st.response]

\* No cached render / an empty widget.
NoRender == [has |-> FALSE, of |-> EmptyResponse]

NewStep(type, request) ==
    [type |-> type, request |-> request, compiled |-> Undefined,
     response |-> EmptyResponse, render |-> NoRender]

Chain ==
    << NewStep("HTTP", ReqHttp), NewStep("OAUTH", ReqAuthorize), NewStep("FTP", ReqHttp) >>

\* A second chain of the data file: an OAUTH step with another action and an
\* HTTP step with an expression that is never closed.
ReqToken ==
    Obj(<<"action", "url", "data">>,
        <<Str(<<"token">>), Str(<<"w">>),
          Obj(<<"redirect_uri">>, <<Str(<<"{{a}}">>)>>)>>)

ReqUnclosed ==
    Obj(<<"url", "headers">>,
        <<Str(<<"u">>), Obj(<<"X">>, <<Str(<<"v", "{{">>)>>)>>)

ChainFailing ==
    << NewStep("OAUTH", ReqToken), NewStep("HTTP", ReqUnclosed) >>

(* ------------------------------------------------------------------ *)
(* State                                                              *)
(* ------------------------------------------------------------------ *)

VARIABLES
    steps,           \* the current chain's steps
    cur,             \* index of the current step, 0 when there is none
    context,         \* data.context()
    execs,           \* one record per call of exec.step, in call order
    crashed,         \* an exception reached the event loop: the process is gone
    message,         \* the message line
    responseWidget,  \* content of the response window
    last             \* the last step taken by or for an execution

vars == <<steps, cur, context, execs, crashed, message, responseWidget, last>>

\* exports.step pieces -------------------------------------------------

\* An exception leaves exports.step; cause names the statement that threw.
Thrown(session, cause) ==
    [ret |-> "throw", session |-> session, err |-> <<>>, redirect |-> Undefined,
     cause |-> cause]

Rejected(err) ==
    [ret |-> "reject", session |-> FALSE, err |-> err, redirect |-> Undefined,
     cause |-> ""]

\* exports.http up to the creation of the promise: the request is sent.
http(st) ==
    [ret |-> "http", session |-> FALSE, err |-> <<>>, redirect |-> Undefined,
     cause |-> ""]

\* exports.oauthAuthorize up to the creation of the promise.  driverOk: whether
\* exports.driver returns a driver (builder.build() can throw).
oauthAuthorize(st, driverOk) ==
    LET compiled == Get(st.compiled, "data")
    IN IF compiled.t \in {"undefined", "null"} THEN Thrown(FALSE, "data")
       ELSE IF ~driverOk THEN Thrown(FALSE, "driver")
       ELSE IF Get(st.compiled, "url").t # "str" THEN Thrown(TRUE, "url")
       ELSE [ret |-> "oauth", session |-> TRUE, err |-> <<>>,
             redirect |-> Get(compiled, "redirect_uri"), cause |-> ""]

\* exports.oauth
\* exports.oauth without its default case: every action starts the
\* authorization flow.
oauthAnyAction(st, driverOk) == oauthAuthorize(st, driverOk)

oauth(st, driverOk) ==
    IF Get(st.request, "action") = Str(<<"authorize">>)
    THEN oauthAuthorize(st, driverOk)
    ELSE Rejected(<<"Unknown OAuth action: ">> \o Get(st.request, "action").s)

\* A variant whose switch has no default case: what is not OAUTH runs as HTTP.
dispatchNoDefault(st, driverOk) ==
    IF st.type = "OAUTH" THEN oauth(st, driverOk)
    ELSE http(st)

\* The switch of exports.step on a step whose compiled field is set.
dispatch(st, driverOk) ==
    IF st.type = "HTTP" THEN http(st)
    ELSE IF st.type = "OAUTH" THEN oauth(st, driverOk)
    ELSE Rejected(<<"Unknown request type: ", st.type>>)

\* exports.step: the step after the call and how the call ended.
\* exports.step dispatching on the step as it stands, whether or not the
\* compilation returned.
stepNoAbort(st, ctx, driverOk) == [st |-> st, out |-> dispatch(st, driverOk)]

\* exports.step compiling only a step that has no compiled request yet.
stepCached(st, ctx, driverOk) ==
    IF LoopThrows(st.request)
    THEN [st |-> st, out |-> Thrown(FALSE, "template")]
    ELSE LET st1 == IF st.compiled = Undefined
                    THEN [st EXCEPT !.compiled = compile(st.request, ctx)]
                    ELSE st
         IN [st |-> st1, out |-> dispatch(st1, driverOk)]

\* exports.step also marking the response as not completed before the dispatch.
stepMarksResponse(st, ctx, driverOk) ==
    IF LoopThrows(st.request)
    THEN [st |-> st, out |-> Thrown(FALSE, "template")]
    ELSE LET st1 == [st EXCEPT !.compiled = compile(st.request, ctx),
                               !.response = Put(@, "completed", FALSE)]
         IN [st |-> st1, out |-> dispatch(st1, driverOk)]

step(st, ctx, driverOk) ==
    IF LoopThrows(st.request)
    THEN [st |-> st, out |-> Thrown(FALSE, "template")]
    ELSE LET st1 == [st EXCEPT !.compiled = compile(st.request, ctx)]
         IN [st |-> st1, out |-> dispatch(st1, driverOk)]

\* The execution record of a call of exec.step:
\*   step      index of the step passed to exec.step
\*   runner    "http", "oauth", or "none" when no runner was started
\*   pc        "request" (HTTP request sent), "get", "wait", "getTitle", "quit"
\*             (the driver command awaited), "done", or "thrown"
\*   promise   state of the promise exec.step returned ("none": it threw)
\*   err       message of the rejection
\*   chained   the handlers the 'x' key attached to the promise have run
\*   session   a browser session was acquired
\*   redirect  compiled.redirect_uri as captured by oauthAuthorize
\*   title     the page title of the session
\*   read      the title handed to the getTitle callback
\*   quits     number of driver.quit() calls
\*   wrote     response fields this execution assigned
\*   atCall    step.response when exec.step was called
\*   reply     what the transport handed to the HTTP callback
\*   value     the record the promise was resolved with, as it was then
\*   cause     why the execution threw
\*   ctx       data.context() when exec.step was called
NewExec(s, out, atCall, ctx) ==
    [step |-> s,
     runner |-> IF out.ret \in {"http", "oauth"} THEN out.ret ELSE "none",
     pc |-> CASE out.ret = "http" -> "request"
              [] out.ret = "oauth" -> "get"
              [] out.ret = "reject" -> "done"
              [] OTHER -> "thrown",
     promise |-> CASE out.ret \in {"http", "oauth"} -> "pending"
                   [] out.ret = "reject" -> "rejected"
                   [] OTHER -> "none",
     err |-> out.err,
     chained |-> FALSE,
     session |-> out.session,
     redirect |-> out.redirect,
     title |-> <<>>,
     read |-> <<>>,
     quits |-> 0,
     wrote |-> {},
     atCall |-> atCall,
     reply |-> [error |-> FALSE, hasResponse |-> FALSE, statusCode |-> 0,
                headers |-> "", body |-> ""],
     value |-> EmptyResponse,
     cause |-> out.cause,
     ctx |-> ctx]

\* data.js ---------------------------------------------------------------

\* data.getCurrentStep(): the current step's index, 0 when there is none.
getCurrentStep == IF cur \in 1..Len(steps) THEN cur ELSE 0

\* data.resetStep(): the current step's response becomes an empty record.
resetStep(ss, s) == [ss EXCEPT ![s].response = EmptyResponse]

\* data.nextStep() / data.prevStep()
nextStep == IF cur < Len(steps) THEN cur + 1 ELSE cur
prevStep == IF cur > 1 THEN cur - 1 ELSE cur

\* front end helpers -------------------------------------------------------

\* updateResponse with c the current step: re-render and cache.
updateResponse(ss, c) ==
    IF c # 0 THEN [ss EXCEPT ![c].render = renderResponse(ss[c])] ELSE ss

\* What updateResponse puts in the response window.
updateResponseWidget(ss, c) == IF c # 0 THEN renderResponse(ss[c]) ELSE NoRender

\* activateStep with c the current step: use the cached render when there is one.
activateStep(ss, c) ==
    IF c # 0 /\ ~ss[c].render.has THEN [ss EXCEPT ![c].render = renderResponse(ss[c])] ELSE ss

\* Promise callbacks run before the next key press or I/O callback.
NoPendingChain ==
    \A e \in 1..Len(execs) :
        execs[e].promise \in {"resolved", "rejected"} => execs[e].chained

Running == ~crashed /\ NoPendingChain

Init ==
    /\ steps \in {<<>>, updateResponse(Chain, 1), updateResponse(ChainFailing, 1)}
    /\ cur = IF steps = <<>> THEN 0 ELSE 1
    /\ context \in Contexts
    /\ execs = <<>>
    /\ crashed = FALSE
    /\ message = ""
    /\ responseWidget = updateResponseWidget(steps, cur)
    /\ last = [op |-> "load", e |-> 0]

(* ------------------------------------------------------------------ *)
(* Keys                                                               *)
(* ------------------------------------------------------------------ *)

\* screen.key('x') with a current step: everything up to the return of exec.step.
KeyX ==
    /\ Running
    /\ Len(execs) < MaxExec
    /\ getCurrentStep # 0
    /\ \E driverOk \in BOOLEAN :
        LET s == getCurrentStep
            ss1 == updateResponse(resetStep(steps, s), s)
            r == step(ss1[s], context, driverOk)
        IN /\ steps' = [ss1 EXCEPT ![s] = r.st]
           /\ message' = "Loading ..."
           /\ responseWidget' = updateResponseWidget(ss1, s)
           /\ execs' = Append(execs, NewExec(s, r.out, ss1[s].response, context))
           /\ crashed' = (r.out.ret = "throw")
           /\ last' = [op |-> "step", e |-> Len(execs) + 1]
    /\ UNCHANGED <<cur, context>>

\* screen.key('x') without a current step.
KeyXNoStep ==
    /\ Running
    /\ getCurrentStep = 0
    /\ message' = "No request to execute!"
    /\ last' = [op |-> "nostep", e |-> 0]
    /\ UNCHANGED <<steps, cur, context, execs, crashed, responseWidget>>

\* screen.key('C-n')
KeyNext ==
    /\ Running
    /\ cur' = nextStep
    /\ steps' = activateStep(steps, cur')
    /\ responseWidget' = IF cur' # 0 THEN steps'[cur'].render ELSE responseWidget
    /\ UNCHANGED <<context, execs, crashed, message, last>>

\* screen.key('C-p')
KeyPrev ==
    /\ Running
    /\ cur' = prevStep
    /\ steps' = activateStep(steps, cur')
    /\ responseWidget' = IF cur' # 0 THEN steps'[cur'].render ELSE responseWidget
    /\ UNCHANGED <<context, execs, crashed, message, last>>

\* The context mapping is edited in the data store.
EditContext ==
    /\ Running
    /\ context' \in Contexts \ {context}
    /\ UNCHANGED <<steps, cur, execs, crashed, message, responseWidget, last>>

(* ------------------------------------------------------------------ *)
(* exports.http                                                       *)
(* ------------------------------------------------------------------ *)

\* The transport calls back.
HttpReply(e) ==
    /\ Running
    /\ execs[e].pc = "request"
    /\ \E reply \in Replies :
        LET s == execs[e].step
        IN IF HttpCallbackThrows(reply)
           THEN /\ crashed' = TRUE
                /\ execs' = [execs EXCEPT ![e].pc = "thrown", ![e].reply = reply,
                                          ![e].cause = "noResponse"]
                /\ UNCHANGED steps
           ELSE /\ steps' = [steps EXCEPT ![s].response = HttpCallback(@, reply)]
                /\ execs' = [execs EXCEPT ![e].pc = "done", ![e].reply = reply,
                                          ![e].wrote = HttpWrites(reply),
                                          ![e].promise = "resolved",
                                          ![e].value = steps'[s].response]
                /\ UNCHANGED crashed
    /\ last' = [op |-> "httpCallback", e |-> e]
    /\ UNCHANGED <<cur, context, message, responseWidget>>

(* ------------------------------------------------------------------ *)
(* exports.oauthAuthorize                                             *)
(* The driver's commands run one after the other in its control flow; *)
(* a command that fails with no rejection handler discards the        *)
(* commands queued behind it and raises an uncaught exception.        *)
(* ------------------------------------------------------------------ *)

\* An unhandled failure in the driver's control flow.
Uncaught(e, cause) ==
    /\ crashed' = TRUE
    /\ execs' = [execs EXCEPT ![e].pc = "thrown", ![e].cause = cause]

\* driver.get succeeds: wait, getTitle and quit are queued.
Navigated(e) ==
    /\ Running
    /\ execs[e].pc = "get"
    /\ execs' = [execs EXCEPT ![e].pc = "wait", ![e].title = TitleLogin]
    /\ last' = [op |-> "get", e |-> e]
    /\ UNCHANGED <<steps, cur, context, crashed, message, responseWidget>>

\* driver.get fails.
NavigationFails(e) ==
    /\ Running
    /\ execs[e].pc = "get"
    /\ Uncaught(e, "navigation")
    /\ last' = [op |-> "getFailed", e |-> e]
    /\ UNCHANGED <<steps, cur, context, message, responseWidget>>

\* The page shows another title.
TitleChanges(e) ==
    /\ Running
    /\ execs[e].pc \in {"wait", "getTitle"}
    /\ \E t \in Titles \ {execs[e].title} :
        execs' = [execs EXCEPT ![e].title = t]
    /\ UNCHANGED <<steps, cur, context, crashed, message, responseWidget, last>>

\* The condition of driver.wait
WaitCondition(x) == x.redirect.t = "str" /\ StartsWith(x.title, x.redirect.s)

\* A poll of driver.wait finds the condition true: the wait is over.
PollMatches(e) ==
    /\ Running
    /\ execs[e].pc = "wait"
    /\ WaitCondition(execs[e])
    /\ execs' = [execs EXCEPT ![e].pc = "getTitle"]
    /\ last' = [op |-> "waitDone", e |-> e]
    /\ UNCHANGED <<steps, cur, context, crashed, message, responseWidget>>

\* A poll of driver.wait finds the condition false and the 60000 ms are over:
\* the wait fails.  (Earlier polls that find it false change nothing.)
WaitTimesOut(e) ==
    /\ Running
    /\ execs[e].pc = "wait"
    /\ ~WaitCondition(execs[e])
    /\ Uncaught(e, "timeout")
    /\ last' = [op |-> "timeout", e |-> e]
    /\ UNCHANGED <<steps, cur, context, message, responseWidget>>

\* driver.getTitle() after the wait, and its callback.
TitleRead(e) ==
    /\ Running
    /\ execs[e].pc = "getTitle"
    /\ LET s == execs[e].step
       IN steps' = [steps EXCEPT ![s].response = ExtractCode(@, execs[e].title)]
    /\ execs' = [execs EXCEPT ![e].pc = "quit", ![e].read = execs[e].title,
                              ![e].wrote = {"completed", "code"}]
    /\ last' = [op |-> "getTitle", e |-> e]
    /\ UNCHANGED <<cur, context, crashed, message, responseWidget>>

\* driver.getTitle() after the wait fails.
TitleReadFails(e) ==
    /\ Running
    /\ execs[e].pc = "getTitle"
    /\ Uncaught(e, "titleRead")
    /\ last' = [op |-> "getTitleFailed", e |-> e]
    /\ UNCHANGED <<steps, cur, context, message, responseWidget>>

\* driver.quit() and its callback: resolve(step.response).
Quit(e) ==
    /\ Running
    /\ execs[e].pc = "quit"
    /\ execs' = [execs EXCEPT ![e].pc = "done", ![e].quits = @ + 1,
                              ![e].promise = "resolved",
                              ![e].value = steps[execs[e].step].response]
    /\ last' = [op |-> "quit", e |-> e]
    /\ UNCHANGED <<steps, cur, context, crashed, message, responseWidget>>

(* ------------------------------------------------------------------ *)
(* The promise chain of screen.key('x')                               *)
(* ------------------------------------------------------------------ *)

\* .finally(clearMessage).catch(...).finally(updateRequest)
\* .finally(updateResponse).finally(updateChain).finally(render)
Settled(e) ==
    /\ ~crashed
    /\ execs[e].promise \in {"resolved", "rejected"}
    /\ ~execs[e].chained
    /\ LET s == execs[e].step
           ss1 == IF execs[e].promise = "rejected"
                  THEN [steps EXCEPT ![s].response = Put(@, "error", execs[e].err)]
                  ELSE steps
       IN /\ steps' = updateResponse(ss1, getCurrentStep)
          /\ responseWidget' = updateResponseWidget(ss1, getCurrentStep)
    /\ message' = ""
    /\ execs' = [execs EXCEPT ![e].chained = TRUE]
    /\ last' = [op |-> "settled", e |-> e]
    /\ UNCHANGED <<cur, context, crashed>>

Next ==
    \/ KeyX
    \/ KeyXNoStep
    \/ KeyNext
    \/ KeyPrev
    \/ EditContext
    \/ \E e \in 1..Len(execs) : HttpReply(e)
    \/ \E e \in 1..Len(execs) : Navigated(e)
    \/ \E e \in 1..Len(execs) : NavigationFails(e)
    \/ \E e \in 1..Len(execs) : TitleChanges(e)
    \/ \E e \in 1..Len(execs) : PollMatches(e)
    \/ \E e \in 1..Len(execs) : WaitTimesOut(e)
    \/ \E e \in 1..Len(execs) : TitleRead(e)
    \/ \E e \in 1..Len(execs) : TitleReadFails(e)
    \/ \E e \in 1..Len(execs) : Quit(e)
    \/ \E e \in 1..Len(execs) : Settled(e)

Spec == Init /\ [][Next]_vars

(* ------------------------------------------------------------------ *)
(* compile on its own: a step with any request value is compiled, and *)
(* what compile returned is compiled again as the request of a step.  *)
(* ------------------------------------------------------------------ *)

\* A context one of whose values is itself a handlebars expression.
CtxMarker == [v \in VarNames |-> IF v = "a" THEN [def |-> TRUE, s |-> <<"{{b}}">>]
                                              ELSE [def |-> TRUE, s |-> <<"k">>]]
CompileContexts == Contexts \cup {CtxMarker}

\* The leaves of request values: strings (empty, with expressions, plain,
\* unclosed), a number, booleans and null.
Leaves ==
    { Str(<<>>), Str(<<"u", "{{a}}">>), Str(<<"{{b}}">>), Str(<<"&", "x">>),
      Str(<<Unclosed>>), Num(3), Bool(TRUE), Bool(FALSE), Null }

SeqsUpTo(S, n) == UNION { [1..k -> S] : k \in 0..n }

\* Sequences of leaves and mappings of one key.
Flat ==
    { Arr(items) : items \in SeqsUpTo(Leaves, MaxLen) }
        \cup { Obj(<<"k">>, <<x>>) : x \in Leaves }
        \cup { Obj(<<>>, <<>>) }

\* The request values: leaves, flat containers, and containers of them.
Values ==
    Leaves \cup Flat
        \cup { Arr(<<y>>) : y \in Flat }
        \cup { Obj(<<"k", "l">>, <<x, y>>) : x \in Leaves, y \in Flat }

InitCompile ==
    /\ \E v \in Values : steps = <<NewStep("HTTP", v)>>
    /\ cur = 1
    /\ context \in CompileContexts
    /\ execs = <<>>
    /\ crashed = FALSE
    /\ message = ""
    /\ responseWidget = NoRender
    /\ last = [op |-> "load", e |-> 0]

\* step.compiled = compile(step.request), compile returning.
CompileRequest ==
    /\ last.op = "load"
    /\ ~LoopThrows(steps[1].request)
    /\ steps' = [steps EXCEPT ![1].compiled = compile(steps[1].request, context)]
    /\ last' = [op |-> "compile", e |-> 0]
    /\ UNCHANGED <<cur, context, execs, crashed, message, responseWidget>>

\* step.compiled = compile(step.request), handlebars throwing.
CompileThrows ==
    /\ last.op = "load"
    /\ LoopThrows(steps[1].request)
    /\ crashed' = TRUE
    /\ last' = [op |-> "compileThrew", e |-> 0]
    /\ UNCHANGED <<steps, cur, context, execs, message, responseWidget>>

\* The value compile returned is the request of a step compiled next.
CompileAgain ==
    /\ last.op = "compile"
    /\ ~LoopThrows(steps[1].compiled)
    /\ steps' = [steps EXCEPT ![1].request = steps[1].compiled,
                              ![1].compiled = compile(steps[1].compiled, context)]
    /\ last' = [op |-> "recompile", e |-> 0]
    /\ UNCHANGED <<cur, context, execs, crashed, message, responseWidget>>

NextCompile == CompileRequest \/ CompileThrows \/ CompileAgain

SpecCompile == InitCompile /\ [][NextCompile]_vars

(* ------------------------------------------------------------------ *)
(* Properties                                                         *)
(* ------------------------------------------------------------------ *)

Execs == 1..Len(execs)

\* The response record of the step execution e runs on.
ResponseOf(e) == steps[execs[e].step].response

\* Execution e has not settled and can still act.
InFlight(e) == execs[e].promise = "pending" /\ execs[e].pc # "thrown"

\* The transport of HTTP execution e has called back.
CalledBack(e) == execs[e].runner = "http" /\ execs[e].pc # "request"

\* C1: whatever the transport reports (status 200, another status, an error
\* with no response object), once it has called back the promise of the HTTP
\* runner is resolved with the step's response record: it is neither left
\* pending nor rejected.
C1_HttpResolvesOnEveryOutcome ==
    \A e \in Execs :
        CalledBack(e) =>
            /\ execs[e].promise = "resolved"
            /\ "completed" \in execs[e].value.has

\* C2: after a transport error with no response object the step's response
\* has completed = true and error = true, and no status, headers or body.
C2_TransportErrorIsRecorded ==
    \A e \in Execs :
        (CalledBack(e) /\ execs[e].reply.error /\ ~execs[e].reply.hasResponse) =>
            /\ {"completed", "error"} \subseteq ResponseOf(e).has
            /\ ResponseOf(e).completed = TRUE
            /\ ResponseOf(e).error = JsTrue
            /\ ResponseOf(e).has \cap {"status", "headers", "body"} = {}

\* C3: when the wait for the redirect title times out, the flow rejects, has
\* written no code, and the browser session has been quit exactly once.
C3_TimeoutRejectsAfterQuit ==
    \A e \in Execs :
        execs[e].cause = "timeout" =>
            /\ execs[e].promise = "rejected"
            /\ "code" \notin execs[e].wrote
            /\ execs[e].quits = 1

\* C4: an authorization flow that acquired a browser session and has ended
\* (settled, or stopped by a failure) has quit the session exactly once, and
\* no flow quits more than once.
C4_SessionClosedOnEveryExit ==
    \A e \in Execs :
        /\ execs[e].quits <= 1
        /\ (execs[e].session /\ execs[e].pc \in {"done", "thrown"}) => execs[e].quits = 1

\* C5: a step whose type is neither HTTP nor OAUTH is rejected with the
\* unknown-type error, no runner is started (no request, no browser session),
\* and when exec.step returns the response is what it was at the call.
C5_UnknownTypeRejects ==
    \A e \in Execs :
        steps[execs[e].step].type \notin {"HTTP", "OAUTH"} =>
            /\ execs[e].promise = "rejected"
            /\ execs[e].err = <<"Unknown request type: ", steps[execs[e].step].type>>
            /\ execs[e].runner = "none"
            /\ ~execs[e].session
            /\ execs[e].wrote = {}
            /\ (last = [op |-> "step", e |-> e] => ResponseOf(e) = execs[e].atCall)

C5_Witness ==
    \E e \in Execs :
        /\ steps[execs[e].step].type = "FTP"
        /\ last = [op |-> "step", e |-> e]
        /\ execs[e].promise = "rejected"

\* C6: right after the callback of a status-200 reply with no transport error,
\* the response has status 200, completed = true, a falsy error and the
\* received headers and body, whatever it held before.
C6_Http200IsSuccess ==
    \A e \in Execs :
        (last = [op |-> "httpCallback", e |-> e]
            /\ execs[e].reply.hasResponse /\ ~execs[e].reply.error
            /\ execs[e].reply.statusCode = 200) =>
            /\ {"status", "completed", "headers", "body"} \subseteq ResponseOf(e).has
            /\ ResponseOf(e).status = 200
            /\ ResponseOf(e).completed = TRUE
            /\ ~ErrorTruthy(ResponseOf(e))
            /\ ResponseOf(e).headers = execs[e].reply.headers
            /\ ResponseOf(e).body = execs[e].reply.body

\* C7: right after the callback of a reply whose status is not 200, the
\* response has completed = true, error = true, the received status, headers
\* and body, and the promise is resolved with that record.
C7_HttpNon200IsError ==
    \A e \in Execs :
        (last = [op |-> "httpCallback", e |-> e]
            /\ execs[e].reply.hasResponse
            /\ execs[e].reply.statusCode # 200) =>
            /\ {"status", "completed", "error", "headers", "body"} \subseteq ResponseOf(e).has
            /\ ResponseOf(e).completed = TRUE
            /\ ResponseOf(e).error = JsTrue
            /\ ResponseOf(e).status = execs[e].reply.statusCode
            /\ ResponseOf(e).headers = execs[e].reply.headers
            /\ ResponseOf(e).body = execs[e].reply.body
            /\ execs[e].promise = "resolved"
            /\ execs[e].value = ResponseOf(e)

C7_Witness ==
    \E e \in Execs :
        /\ last = [op |-> "httpCallback", e |-> e]
        /\ execs[e].reply.statusCode = 201
        /\ execs[e].promise = "resolved"

\* Execution e has just settled: its promise was resolved or rejected by the
\* step taken last.
JustSettled(e) ==
    /\ last.e = e
    /\ last.op \in {"step", "httpCallback", "quit"}
    /\ execs[e].promise \in {"resolved", "rejected"}

\* C8: when an execution settles, either the step's response has
\* completed = true, or the execution is rejected and has written no field of
\* the response.
C8_SettledIsCompletedOrUntouched ==
    \A e \in Execs :
        JustSettled(e) =>
            \/ ("completed" \in ResponseOf(e).has /\ ResponseOf(e).completed = TRUE)
            \/ (execs[e].promise = "rejected" /\ execs[e].wrote = {}
                    /\ ResponseOf(e) = execs[e].atCall)

\* C9: no two executions of the same step are in flight at the same time.
C9_OneExecutionPerStep ==
    \A e1, e2 \in Execs :
        (e1 # e2 /\ execs[e1].step = execs[e2].step) => ~(InFlight(e1) /\ InFlight(e2))

\* C10: when the authorization flow resolves, the response it resolves with
\* has completed = true and the code parameter of the first token of the title
\* read after the wait, or no code when that token has none.
C10_ResolvesWithCodeOfTitle ==
    \A e \in Execs :
        (last = [op |-> "quit", e |-> e] /\ execs[e].promise = "resolved") =>
            /\ "completed" \in execs[e].value.has
            /\ execs[e].value.completed = TRUE
            /\ ("code" \in execs[e].value.has) = CodeOf(execs[e].read).present
            /\ execs[e].value.code = CodeOf(execs[e].read).v

\* The OAuth action of the step execution e runs on, as exports.oauth reads it.
ActionOf(e) == Get(steps[execs[e].step].request, "action")

\* C11: an OAUTH step whose request action is not "authorize" (and whose
\* request compiles) is rejected with the unknown-action error naming the
\* action, acquires no browser session, starts no runner, and when exec.step
\* returns the response is what it was at the call.
C11_UnknownActionRejects ==
    \A e \in Execs :
        (steps[execs[e].step].type = "OAUTH"
            /\ ActionOf(e) # Str(<<"authorize">>)
            /\ execs[e].cause # "template") =>
            /\ execs[e].promise = "rejected"
            /\ execs[e].err = <<"Unknown OAuth action: ">> \o ActionOf(e).s
            /\ execs[e].runner = "none"
            /\ ~execs[e].session
            /\ execs[e].quits = 0
            /\ execs[e].wrote = {}
            /\ (last = [op |-> "step", e |-> e] => ResponseOf(e) = execs[e].atCall)

C11_Witness ==
    \E e \in Execs :
        /\ steps[execs[e].step].type = "OAUTH"
        /\ ActionOf(e) = Str(<<"token">>)
        /\ last = [op |-> "step", e |-> e]
        /\ execs[e].err = <<"Unknown OAuth action: ", "token">>

\* C12: when the browser session cannot be acquired, exec.step hands the
\* caller a rejected promise (it does not throw), and the execution has
\* written no field of the step's response.
C12_DriverFailureRejects ==
    \A e \in Execs :
        execs[e].cause = "driver" =>
            /\ execs[e].promise = "rejected"
            /\ execs[e].wrote = {}
            /\ ~crashed

\* C13: when a string leaf of the request fails to render, exec.step throws
\* to its caller before dispatching: no runner is started (no HTTP request, no
\* browser session), no promise is created, the execution writes no response
\* field, and when the throw reaches the caller the response is what it was at
\* the call.
C13_RenderFailureAbortsBeforeDispatch ==
    \A e \in Execs :
        LoopThrows(steps[execs[e].step].request) =>
            /\ execs[e].pc = "thrown"
            /\ execs[e].cause = "template"
            /\ execs[e].promise = "none"
            /\ execs[e].runner = "none"
            /\ ~execs[e].session
            /\ execs[e].wrote = {}
            /\ (last = [op |-> "step", e |-> e] => ResponseOf(e) = execs[e].atCall)

C13_Witness ==
    \E e \in Execs :
        /\ LoopThrows(steps[execs[e].step].request)
        /\ steps[execs[e].step].type = "HTTP"
        /\ last = [op |-> "step", e |-> e]
        /\ execs[e].cause = "template"

\* c is a structural copy of v with every string leaf rendered against ctx.
RECURSIVE StructuralCopy(_, _, _)
StructuralCopy(v, c, ctx) ==
    CASE v.t = "arr" ->
            /\ c.t = "arr"
            /\ Len(c.items) = Len(v.items)
            /\ \A i \in 1..Len(v.items) : StructuralCopy(v.items[i], c.items[i], ctx)
      [] v.t = "obj" ->
            /\ c.t = "obj"
            /\ c.keys = v.keys
            /\ Len(c.items) = Len(v.items)
            /\ \A i \in 1..Len(v.items) : StructuralCopy(v.items[i], c.items[i], ctx)
      [] v.t = "str" -> c = Str(Render(v.s, ctx))
      [] OTHER -> c = v

\* The value has at least one string leaf.
RECURSIVE HasStringLeaf(_)
HasStringLeaf(v) ==
    IF v.t \in {"arr", "obj"}
    THEN \E i \in 1..Len(v.items) : HasStringLeaf(v.items[i])
    ELSE v.t = "str"

\* compile has just returned step.compiled for step.request.
Compiled == last.op \in {"compile", "recompile"}

\* C14: what compile returns for a request is a structural copy of it:
\* sequences keep their length and order, mappings their key set, number,
\* boolean and null leaves are unchanged, string leaves are replaced by their
\* rendering against the context; a request with no string leaf compiles to
\* an equal value.
C14_CompileIsStructuralCopy ==
    Compiled =>
        /\ StructuralCopy(steps[1].request, steps[1].compiled, context)
        /\ (~HasStringLeaf(steps[1].request) => steps[1].compiled = steps[1].request)

C14_Witness ==
    /\ last.op = "compile"
    /\ steps[1].request = Obj(<<"k", "l">>, <<Str(<<"u", "{{a}}">>), Arr(<<Null, Str(<<"{{b}}">>)>>)>>)
    /\ context = CtxB
    /\ steps[1].compiled = Obj(<<"k", "l">>, <<Str(<<"u", "z">>), Arr(<<Null, Str(<<"k">>)>>)>>)

\* No string leaf of the value contains a template marker.
RECURSIVE MarkerFree(_)
MarkerFree(v) ==
    IF v.t \in {"arr", "obj"}
    THEN \A i \in 1..Len(v.items) : MarkerFree(v.items[i])
    ELSE v.t = "str" => \A i \in 1..Len(v.s) : v.s[i] \notin Markers \cup {Unclosed}

\* C15: compiling a value whose string leaves contain no template marker
\* returns that value; in particular compiling again what compile returned,
\* when no marker remains in it, returns it unchanged.
C15_CompileIsIdempotent ==
    (Compiled /\ MarkerFree(steps[1].request)) => steps[1].compiled = steps[1].request

C15_Witness ==
    /\ last.op = "recompile"
    /\ steps[1].request = Obj(<<"k", "l">>, <<Str(<<"u", "c", "b">>), Arr(<<Str(<<"&", "x">>), Num(3)>>)>>)
    /\ steps[1].compiled = steps[1].request

\* Execution e is the latest call of exec.step on its step that got past
\* the compilation.
LatestCompile(e) ==
    /\ execs[e].cause # "template"
    /\ \A f \in Execs :
          (f > e /\ execs[f].step = execs[e].step) => execs[f].cause = "template"

\* step.compiled is what the latest call compiled from step.request against
\* the context that call saw.
CompiledByLatest ==
    \A e \in Execs :
        LatestCompile(e) =>
            steps[execs[e].step].compiled =
                compile(steps[execs[e].step].request, execs[e].ctx)

\* C16: every call of exec.step whose compilation returns sets step.compiled
\* to compile(step.request) under the context as it is at that call, whatever
\* executions and context edits came before, and step.compiled keeps that
\* value until the next call on the step.
C16_CompiledFromContextAtCall ==
    [][ /\ (Len(execs') > Len(execs) =>
              LET e == Len(execs')
                  s == execs'[e].step
              IN /\ execs'[e].ctx = context
                 /\ (execs'[e].cause # "template" =>
                        steps'[s].compiled = compile(steps[s].request, context)))
        /\ CompiledByLatest' ]_vars

C16_Witness ==
    \E e, f \in Execs :
        /\ e < f
        /\ execs[e].step = execs[f].step
        /\ execs[e].chained
        /\ execs[e].ctx # execs[f].ctx
        /\ compile(steps[execs[f].step].request, execs[e].ctx)
              # compile(steps[execs[f].step].request, execs[f].ctx)
        /\ steps[execs[f].step].compiled
              = compile(steps[execs[f].step].request, execs[f].ctx)

\* The orderings of one execution up to the close of the session: the runner
\* was dispatched on the request compiled by this call, nothing is written to
\* the response before the dispatch, the session is closed only after the
\* code extraction, and the promise of the flow is settled only after the
\* close.
OrderedUpToClose ==
    \A e \in Execs :
        LET s == execs[e].step
            compiled == compile(steps[s].request, execs[e].ctx)
        IN /\ (execs[e].runner = "oauth" =>
                  execs[e].redirect = Get(Get(compiled, "data"), "redirect_uri"))
           /\ (LatestCompile(e) /\ execs[e].runner # "none" => steps[s].compiled = compiled)
           /\ (execs[e].wrote # {} => execs[e].runner \in {"http", "oauth"})
           /\ (last = [op |-> "step", e |-> e] => ResponseOf(e) = execs[e].atCall)
           /\ (execs[e].quits >= 1 =>
                  \/ {"completed", "code"} \subseteq execs[e].wrote
                  \/ execs[e].cause = "timeout")
           /\ (execs[e].runner = "oauth" /\ execs[e].promise \in {"resolved", "rejected"} =>
                  execs[e].quits = 1)

\* C17: within one execution step.compiled is written before the dispatch,
\* the dispatch comes before every write to the response, and in the
\* authorization flow the session is closed after the code extraction or
\* after the timeout, and before the promise settles: so a flow that has
\* ended by the timeout has closed its session.
C17_EventsAreOrdered ==
    /\ OrderedUpToClose
    /\ \A e \in Execs :
          (execs[e].cause = "timeout" /\ execs[e].pc = "thrown") => execs[e].quits = 1

\* C18: no step of an execution changes step.request, step.type or the
\* context; the call of exec.step leaves the response as the caller handed it
\* over (it writes only step.compiled); and a response changes only in the
\* callback of the HTTP runner or of the OAuth runner of an execution of that
\* step, apart from the caller's own reset before the call and its error
\* handler after a rejection.
C18_FrameOfExecution ==
    [][ /\ Len(steps') = Len(steps)
        /\ \A s \in 1..Len(steps) :
              /\ steps'[s].request = steps[s].request
              /\ steps'[s].type = steps[s].type
        /\ (last' # last => context' = context)
        /\ (Len(execs') > Len(execs) =>
              LET e == Len(execs')
                  s == execs'[e].step
              IN /\ steps'[s].response = execs'[e].atCall
                 /\ steps'[s].response = EmptyResponse
                 /\ \A o \in 1..Len(steps) : o # s => steps'[o] = steps[o])
        /\ \A s \in 1..Len(steps) :
              steps'[s].response # steps[s].response =>
                  \/ last'.op = "step" /\ execs'[last'.e].step = s
                  \/ /\ last'.op \in {"httpCallback", "getTitle"}
                     /\ execs[last'.e].step = s
                     /\ execs[last'.e].runner \in {"http", "oauth"}
                  \/ /\ last'.op = "settled"
                     /\ execs[last'.e].step = s
                     /\ execs[last'.e].promise = "rejected"
                     /\ steps'[s].response = Put(steps[s].response, "error", execs[last'.e].err)
      ]_vars

C18_Witness ==
    \E e \in Execs :
        /\ last = [op |-> "getTitle", e |-> e]
        /\ "code" \in ResponseOf(e).has
        /\ steps[execs[e].step].request = ReqAuthorize
        /\ steps[execs[e].step].type = "OAUTH"
        /\ steps[execs[e].step].compiled = compile(ReqAuthorize, execs[e].ctx)
        /\ context = execs[e].ctx

\* C19: the title the code is extracted from begins with redirect_uri: it is
\* a title that satisfied the poll, also when the page title changed between
\* the successful poll and the read.
C19_CodeFromMatchingTitle ==
    \A e \in Execs :
        "code" \in execs[e].wrote =>
            /\ execs[e].redirect.t = "str"
            /\ StartsWith(execs[e].read, execs[e].redirect.s)
            /\ (last = [op |-> "getTitle", e |-> e] =>
                    ResponseOf(e).code = CodeOf(execs[e].read).v)

\* C20: when the handlers the 'x' key attached have run for a settled
\* execution, the cached rendered response of the executed step is the
\* rendering of its response record as it is then, wherever the user has
\* moved in the chain meanwhile.
C20_ExecutedStepIsRendered ==
    \A e \in Execs :
        last = [op |-> "settled", e |-> e] =>
            steps[execs[e].step].render = renderResponse(steps[execs[e].step])

====
